---- MODULE Spec2Model ----
(***************************************************************************)
(* The repository provisioning pipeline of project-generator:              *)
(*   src/src/github/mod.rs   create_github_repository_with_code            *)
(*   src/src/github/repo.rs  GitHubRepo (create_repository,                *)
(*                           initialize_git_and_push, trigger_deployments, *)
(*                           create_develop_branch,                        *)
(*                           setup_repository_branches)                    *)
(* One provisioning run is one sequential flow of control; every await is  *)
(* one step.  The hosting platform and the local git library are the       *)
(* environment: each call draws its outcome from the outcomes the remote   *)
(* state allows.  `log` is the history of every request, local git step,   *)
(* sleep and function return, in program order.                            *)
(***************************************************************************)
EXTENDS Integers, Sequences, FiniteSets, TLC

VARIABLES
    token,                  \* GitHubRepo.token (repo.rs:8)
    github_tag,             \* Option<&str>: <<>> is None, <<t>> is Some(t)
    create_develop_branch,  \* bool parameter (mod.rs:25)
    files,                  \* workflow files present under project_path
    no_deploy,              \* context variable "no_deploy": <<>> or <<value>>
    gitdir,                 \* the .git directory under project_path
    remote,                 \* the repository on the hosting platform
    pc,                     \* position of the flow of control
    log,                    \* history of calls, sleeps and returns
    result,                 \* return value of create_github_repository_with_code
    repo_url,               \* html_url returned by create_repository
    main_sha,               \* local main_sha of create_develop_branch
    calls,                  \* invocations of setup_repository_branches so far
    REPO_URL,               \* crate::config::REPO_URL, a sequence of characters
    organization,           \* what extract_organization_from_repo_url returned
    template_json,          \* &IndexMap<String, Value>: a sequence of entries
    replacements,           \* &[Replacement] (functions.rs:28)
    variables,              \* what context::get_variable holds, by name
    ordered_map             \* what create_ordered_map returned

vars == <<token, github_tag, create_develop_branch, files, no_deploy, gitdir,
          remote, pc, log, result, repo_url, main_sha, calls, REPO_URL, organization,
          template_json, replacements, variables, ordered_map>>

inputs == <<token, github_tag, create_develop_branch, files, no_deploy, REPO_URL,
            template_json, replacements, variables>>

----------------------------------------------------------------------------
(* Bounds of the model *)

\* how many times the harness of SpecSetup calls setup_repository_branches
MaxSetupCalls == 2

\* commits held by a .git directory left over at project_path
MaxOldCommits == 1

\* length of the base URLs identity resolution is tried on
MaxUrlLen == 4

\* entries of the template create_ordered_map is given
MaxTemplateLen == 3

\* replacements create_ordered_map is given
MaxReplacements == 2

(* Program constants *)

\* tokio::time::sleep before create_develop_branch (repo.rs:403)
SetupDelaySecs == 5

\* tokio::time::sleep before the first dispatch (repo.rs:261)
IndexingDelaySecs == 10

\* tokio::time::sleep between the two dispatches (repo.rs:273)
RateLimitDelaySecs == 2

----------------------------------------------------------------------------
(* Values *)

NoRef == "none"
Shas == {"sha_a", "sha_b"}

DevWorkflow == ".github/workflows/deploy-dev.yml"
ProdWorkflow == ".github/workflows/deploy-prod.yml"

\* a token HeaderValue::from_str accepts, and one it rejects (a line break)
Tokens == {"ghp_token", "ghp_to\nken"}

Topics == {<<>>, <<"astro">>}

NoGitDir == [present |-> FALSE, commits |-> 0, staged |-> FALSE, head |-> NoRef, origin |-> ""]

NoRemote == [exists |-> FALSE, main |-> NoRef, develop |-> NoRef]

\* REPO_URL = "https://github.com/NextNodeSolutions" (mod.rs:8, repo.rs:26)
RepoUrl ==
    <<"h","t","t","p","s",":","/","/","g","i","t","h","u","b",".","c","o","m","/",
      "N","e","x","t","N","o","d","e","S","o","l","u","t","i","o","n","s">>

\* the characters of the base URLs identity resolution is tried on
UrlChars == {"/", "o", "g"}

\* every base URL of at most MaxUrlLen characters
Urls == UNION { [1..n -> UrlChars] : n \in 0..MaxUrlLen }

\* extract_organization_from_repo_url has not been called
NotExtracted == [status |-> "none", value |-> <<>>]

\* values of the no_deploy variable, as sequences of characters
NoDeployValues ==
    { <<"t","r","u","e">>, <<"T","R","U","E">>, <<"T","r","u","e">>,
      <<"1">>, <<"y","e","s">>, <<"Y","e","S">>, <<"o","n">>, <<"O","N">>,
      <<"f","a","l","s","e">>, <<"0">>, <<"n","o">>, <<"o","f","f">>,
      <<>>, <<" ","o","n">>, <<"t","r","u","e"," ">>, <<"o","n","e">>,
      <<"y">>, <<"1","1">> }

----------------------------------------------------------------------------
(* Pure helpers *)

UpperAlphabet ==
    <<"A","B","C","D","E","F","G","H","I","J","K","L","M",
      "N","O","P","Q","R","S","T","U","V","W","X","Y","Z">>

LowerAlphabet ==
    <<"a","b","c","d","e","f","g","h","i","j","k","l","m",
      "n","o","p","q","r","s","t","u","v","w","x","y","z">>

\* char::to_lowercase on the characters of the model
LowerChar(c) ==
    IF \E i \in DOMAIN UpperAlphabet : UpperAlphabet[i] = c
    THEN LowerAlphabet[CHOOSE i \in DOMAIN UpperAlphabet : UpperAlphabet[i] = c]
    ELSE c

\* str::to_lowercase (repo.rs:245)
to_lowercase(s) == [i \in DOMAIN s |-> LowerChar(s[i])]

\* a mutant of is_disabled: the value is compared as it is, not lowercased
is_disabled_case_sensitive(v) ==
    v \in { <<"t","r","u","e">>, <<"1">>, <<"y","e","s">>, <<"o","n">> }

\* the match of repo.rs:245-248
is_disabled(v) ==
    to_lowercase(v) \in { <<"t","r","u","e">>, <<"1">>, <<"y","e","s">>, <<"o","n">> }

RECURSIVE SplitFrom(_, _, _, _)
\* str::split: the segments of s from position i on, cur being the segment
\* under way and acc the segments closed so far
SplitFrom(s, i, cur, acc) ==
    IF i > Len(s) THEN Append(acc, cur)
    ELSE IF s[i] = "/" THEN SplitFrom(s, i + 1, <<>>, Append(acc, cur))
    ELSE SplitFrom(s, i + 1, Append(cur, s[i]), acc)

\* REPO_URL.split('/') (mod.rs:9, repo.rs:27-28): the empty string has one
\* segment, the empty one; a trailing '/' closes a segment and opens an empty one
split(s) == SplitFrom(s, 1, <<>>, <<>>)

\* Iterator::last (mod.rs:9, repo.rs:29): <<>> is None, <<x>> is Some(x)
last(segments) == IF segments = <<>> THEN <<>> ELSE <<segments[Len(segments)]>>

\* extract_organization_from_repo_url (mod.rs:6-17): ok_or_else fails on None
extract_organization_from_repo_url(url) ==
    LET found == last(split(url)) IN
    IF found = <<>> THEN [status |-> "Err", value |-> <<>>]
    ELSE [status |-> "Ok", value |-> found[1]]

\* the local org_name of every method of GitHubRepo (repo.rs:27-30, 184-187,
\* 293-296): the same expression as extract_organization_from_repo_url
org_name == extract_organization_from_repo_url(REPO_URL)

\* HeaderValue::from_str(&format!("Bearer {}", token)) succeeds (repo.rs:36-37)
HeaderValueOk(t) == t = "ghp_token"

\* a mutant of workflows_exist: either file is enough
workflows_exist_either == DevWorkflow \in files \/ ProdWorkflow \in files

\* the condition of mod.rs:70-75
workflows_exist == DevWorkflow \in files /\ ProdWorkflow \in files

----------------------------------------------------------------------------
(* generate/functions.rs: create_ordered_map and what it calls.  An        *)
(* IndexMap is the sequence of its entries, in insertion order; a string   *)
(* is a sequence of characters.                                             *)

\* serde_json::Value::String and Value::Array of strings
String(text) == [kind |-> "string", items |-> <<text>>]

Array(texts) == [kind |-> "array", items |-> texts]

RECURSIVE SplitOn(_, _, _, _, _)
\* str::split(sep): as SplitFrom, on any separator
SplitOn(sep, s, i, cur, acc) ==
    IF i > Len(s) THEN Append(acc, cur)
    ELSE IF s[i] = sep THEN SplitOn(sep, s, i + 1, <<>>, Append(acc, cur))
    ELSE SplitOn(sep, s, i + 1, Append(cur, s[i]), acc)

RECURSIVE trim(_)
\* str::trim: white space is dropped at both ends
trim(s) ==
    IF s = <<>> THEN s
    ELSE IF Head(s) = " " THEN trim(Tail(s))
    ELSE IF s[Len(s)] = " " THEN trim(SubSeq(s, 1, Len(s) - 1))
    ELSE s

\* convert_value_to_json (functions.rs:7-24)
convert_value_to_json(value, type_) ==
    IF type_ = "array"
    THEN LET parts == SplitOn(",", value, 1, <<>>, <<>>) IN
         Array([i \in DOMAIN parts |-> trim(parts[i])])
    ELSE String(value)

\* context::get_variable (functions.rs:49, 77): <<>> is None
get_variable(name) == variables[name]

\* get_json_key (functions.rs:97-106): attribute, else key, else name
get_json_key(replacement) ==
    IF replacement.attribute # <<>> THEN replacement.attribute[1]
    ELSE IF replacement.key # <<>> THEN replacement.key[1]
    ELSE replacement.name

\* IndexMap::contains_key
contains_key(map, key) == \E i \in DOMAIN map : map[i].key = key

\* IndexMap::get_index_of: <<>> is None
get_index_of(map, key) ==
    IF contains_key(map, key)
    THEN <<CHOOSE i \in DOMAIN map : map[i].key = key>>
    ELSE <<>>

\* IndexMap::insert: a key the map holds keeps its place and takes the value,
\* a new key goes to the end (functions.rs:35, 51, 79)
insert(map, key, value) ==
    IF contains_key(map, key)
    THEN [i \in DOMAIN map |->
              IF map[i].key = key THEN [key |-> key, value |-> value] ELSE map[i]]
    ELSE Append(map, [key |-> key, value |-> value])

RECURSIVE CopyTemplate(_, _, _)
\* functions.rs:34-36: the entries of the template, from position i on
CopyTemplate(map, template, i) ==
    IF i > Len(template) THEN map
    ELSE CopyTemplate(insert(map, template[i].key, template[i].value), template, i + 1)

RECURSIVE InsertNewKeys(_, _, _, _)
\* functions.rs:46-68 and 74-91: the same loop in both branches, from
\* replacement i on
InsertNewKeys(map, template, reps, i) ==
    IF i > Len(reps) THEN map
    ELSE LET json_key == get_json_key(reps[i])
             value == get_variable(reps[i].name)
         IN  IF ~contains_key(template, json_key) /\ value # <<>>
             THEN InsertNewKeys(
                      insert(map, json_key, convert_value_to_json(value[1], reps[i].type_)),
                      template, reps, i + 1)
             ELSE InsertNewKeys(map, template, reps, i + 1)

\* create_ordered_map (functions.rs:26-95)
create_ordered_map(template, reps) ==
    LET copied == CopyTemplate(<<>>, template, 1) IN
    IF get_index_of(copied, "name") # <<>>
    THEN InsertNewKeys(copied, template, reps, 1)
    ELSE InsertNewKeys(copied, template, reps, 1)

TemplateKeys == {"name", "version", "description"}

TemplateValues == {String(<<"0">>), Array(<<>>)}

\* IndexMaps: the keys of the entries differ
Templates ==
    UNION { { t \in [1..n -> [key : TemplateKeys, value : TemplateValues]] :
                \A i, j \in 1..n : t[i].key = t[j].key => i = j } :
            n \in 0..MaxTemplateLen }

VariableNames == {"description", "license"}

VariableValues == {<<"a", ",", " ", "b">>}

\* crate::config::Replacement: name, key, attribute, type_
Replacements ==
    [name : VariableNames,
     key : {<<>>, <<"version">>},
     attribute : {<<>>, <<"author">>},
     type_ : {"string", "array"}]

NotCreated == [status |-> "none", value |-> <<>>]

\* no call of create_ordered_map is made
NoOrderedMapCall ==
    /\ template_json = <<>>
    /\ replacements = <<>>
    /\ variables = [name \in VariableNames |-> <<>>]
    /\ ordered_map = NotCreated

----------------------------------------------------------------------------
(* Outcomes of one HTTP call                                               *)
(*   org_error         org_name could not be extracted, nothing is sent    *)
(*   header_error      a HeaderValue could not be built, nothing is sent   *)
(*   transport         send().await is Err                                 *)
(*   error_status      status is not 2xx, the error body is read           *)
(*   error_unreadable  status is not 2xx, reading the body fails           *)
(*   bad_json          status is 2xx, the body is not JSON                 *)
(*   no_field          status is 2xx, the JSON lacks the expected field    *)
(*   ok                status is 2xx and the body is as expected           *)
(* The platform answers 2xx only when `possible` holds of its state.       *)

Failures == {"transport", "error_status", "error_unreadable"}

Is2xx(r) == r \in {"ok", "bad_json", "no_field"}

\* a call whose 2xx body is parsed
ParsedResponses(possible) ==
    IF org_name.status = "Err" THEN {"org_error"}
    ELSE IF ~HeaderValueOk(token) THEN {"header_error"}
    ELSE Failures \cup (IF possible THEN {"ok", "bad_json", "no_field"} ELSE {})

\* a call whose 2xx body is not read
PlainResponses(possible) ==
    IF org_name.status = "Err" THEN {"org_error"}
    ELSE IF ~HeaderValueOk(token) THEN {"header_error"}
    ELSE Failures \cup (IF possible THEN {"ok"} ELSE {})

----------------------------------------------------------------------------
(* The history *)

Event(op, target, ref, res) ==
    [op |-> op, target |-> target, ref |-> ref, res |-> res, secs |-> 0, call |-> calls,
     org |-> <<>>]

\* a request to https://api.github.com/orgs/{org}/... or /repos/{org}/{repo}/...
ApiRequest(op, target, ref, res) ==
    [Event(op, target, ref, res) EXCEPT !.org = org_name.value]

Sleep(n) ==
    [op |-> "sleep", target |-> "", ref |-> "", res |-> "ok", secs |-> n, call |-> calls,
     org |-> <<>>]

Return(fn, res) ==
    [op |-> "return", target |-> fn, ref |-> "", res |-> res, secs |-> 0, call |-> calls,
     org |-> <<>>]

\* the request is on the wire unless org_name or the headers could not be built
Sent(ev) == IF ev.res \in {"org_error", "header_error"} THEN <<>> ELSE <<ev>>

----------------------------------------------------------------------------
(* create_repository, repo.rs:18-118 *)

\* a mutant of create_repository_result: a 2xx answer without html_url is accepted
create_repository_result_lenient(r) == IF Is2xx(r) THEN "Ok" ELSE "Err"

\* what the create request's outcome makes of the call (repo.rs:27-84)
create_repository_result(r) == IF r = "ok" THEN "Ok" ELSE "Err"

\* what the topic request's outcome makes of the call (repo.rs:94-115):
\* send() and text() are unwrapped with ?, a readable error status is a warning
set_topic_result(r) == IF r \in {"transport", "error_unreadable"} THEN "Err" ELSE "Ok"

\* mod.rs:30-38: an Err of create_repository is returned to the caller
FailCreateRepository(events) ==
    /\ log' = log \o events \o <<Return("create_repository", "Err")>>
    /\ pc' = "Aborted"
    /\ result' = "Err"
    /\ UNCHANGED repo_url

\* a mutant of ReturnCreateRepository: the branches are set up before the push
ReturnCreateRepositorySkipPush(events, url) ==
    /\ log' = log \o events \o <<Return("create_repository", "Ok")>>
    /\ pc' = "setup_repository_branches"
    /\ repo_url' = url
    /\ UNCHANGED result

\* mod.rs:30-40: create_repository returned Ok(url)
ReturnCreateRepository(events, url) ==
    /\ log' = log \o events \o <<Return("create_repository", "Ok")>>
    /\ pc' = "initialize_git_and_push"
    /\ repo_url' = url
    /\ UNCHANGED result

\* POST /orgs/{org}/repos and the reading of its answer (repo.rs:27-84)
CreateRepository ==
    /\ pc = "create_repository"
    /\ \E r \in ParsedResponses(~remote.exists) :
         LET ev == Sent(ApiRequest("create_repository", "repos", "", r)) IN
         /\ remote' = IF Is2xx(r) THEN [remote EXCEPT !.exists = TRUE] ELSE remote
         /\ IF create_repository_result(r) = "Err"
            THEN FailCreateRepository(ev)
            ELSE IF github_tag # <<>>
                 THEN /\ log' = log \o ev
                      /\ pc' = "set_topic"
                      /\ UNCHANGED <<result, repo_url>>
                 ELSE ReturnCreateRepository(ev, "html_url")
    /\ UNCHANGED <<inputs, organization, ordered_map, gitdir, main_sha, calls>>

\* PUT /repos/{org}/{repo}/topics (repo.rs:86-117)
SetTopic ==
    /\ pc = "set_topic"
    /\ \E r \in {"transport", "error_status", "error_unreadable", "ok"} :
         LET ev == <<ApiRequest("set_topic", "topics", github_tag[1], r)>> IN
         IF set_topic_result(r) = "Err"
         THEN FailCreateRepository(ev)
         ELSE ReturnCreateRepository(ev, "html_url")
    /\ UNCHANGED <<inputs, organization, ordered_map, gitdir, remote, main_sha, calls>>

----------------------------------------------------------------------------
(* initialize_git_and_push, repo.rs:120-175.  Every step is unwrapped with  *)
(* `?`: its failure is the failure of the call, which mod.rs:43-55 returns. *)

GitOutcomes == {"ok", "fail"}

\* a mutant of FailInitializeAndPush: the failure is logged and the run goes on
IgnoreInitializeAndPushFailure(ev) ==
    /\ log' = log \o <<ev, Return("initialize_git_and_push", "Err")>>
    /\ pc' = "setup_repository_branches"
    /\ UNCHANGED result

\* mod.rs:50-55: an Err of initialize_git_and_push is returned to the caller
FailInitializeAndPush(ev) ==
    /\ log' = log \o <<ev, Return("initialize_git_and_push", "Err")>>
    /\ pc' = "Aborted"
    /\ result' = "Err"

\* a step that succeeded: on to the next one
GitStepDone(ev, next) ==
    /\ log' = Append(log, ev)
    /\ pc' = next
    /\ UNCHANGED result

\* a mutant of GitRemoveDir: an existing .git directory is kept
GitKeepDir ==
    /\ pc = "initialize_git_and_push"
    /\ pc' = "git_init"
    /\ UNCHANGED <<inputs, organization, ordered_map, gitdir, remote, log, result, repo_url, main_sha, calls>>

\* repo.rs:127-131: remove an existing .git directory
GitRemoveDir ==
    /\ pc = "initialize_git_and_push"
    /\ IF gitdir.present
       THEN \E r \in GitOutcomes :
              LET ev == Event("git_remove_dir", ".git", "", r) IN
              IF r = "ok"
              THEN gitdir' = NoGitDir /\ GitStepDone(ev, "git_init")
              ELSE UNCHANGED gitdir /\ FailInitializeAndPush(ev)
       ELSE /\ pc' = "git_init"
            /\ UNCHANGED <<gitdir, log, result>>
    /\ UNCHANGED <<inputs, organization, ordered_map, remote, repo_url, main_sha, calls>>

\* repo.rs:134: Repository::init keeps what an existing .git directory holds
GitInit ==
    /\ pc = "git_init"
    /\ \E r \in GitOutcomes :
         LET ev == Event("git_init", ".git", "", r) IN
         IF r = "ok"
         THEN /\ gitdir' = [gitdir EXCEPT !.present = TRUE, !.staged = FALSE]
              /\ GitStepDone(ev, "git_add")
         ELSE UNCHANGED gitdir /\ FailInitializeAndPush(ev)
    /\ UNCHANGED <<inputs, organization, ordered_map, remote, repo_url, main_sha, calls>>

\* repo.rs:142-144: index.add_all and index.write
GitAddAll ==
    /\ pc = "git_add"
    /\ \E r \in GitOutcomes :
         LET ev == Event("git_add", "*", "", r) IN
         IF r = "ok"
         THEN /\ gitdir' = [gitdir EXCEPT !.staged = TRUE]
              /\ GitStepDone(ev, "git_commit")
         ELSE UNCHANGED gitdir /\ FailInitializeAndPush(ev)
    /\ UNCHANGED <<inputs, organization, ordered_map, remote, repo_url, main_sha, calls>>

\* repo.rs:147-158: write_tree, find_tree, Signature::now and commit on HEAD
GitCommit ==
    /\ pc = "git_commit"
    /\ \E r \in GitOutcomes, sha \in Shas :
         LET ev == Event("git_commit", "HEAD", IF r = "ok" THEN sha ELSE "", r) IN
         IF r = "ok"
         THEN /\ gitdir' = [gitdir EXCEPT !.commits = @ + 1, !.head = sha]
              /\ GitStepDone(ev, "git_remote_add")
         ELSE UNCHANGED gitdir /\ FailInitializeAndPush(ev)
    /\ UNCHANGED <<inputs, organization, ordered_map, remote, repo_url, main_sha, calls>>

\* repo.rs:161: repo.remote("origin", repo_url) fails when origin is already set
GitRemoteAdd ==
    /\ pc = "git_remote_add"
    /\ \E r \in (IF gitdir.origin = "" THEN GitOutcomes ELSE {"fail"}) :
         LET ev == Event("git_remote_add", "origin", "", r) IN
         IF r = "ok"
         THEN /\ gitdir' = [gitdir EXCEPT !.origin = repo_url]
              /\ GitStepDone(ev, "git_push")
         ELSE UNCHANGED gitdir /\ FailInitializeAndPush(ev)
    /\ UNCHANGED <<inputs, organization, ordered_map, remote, repo_url, main_sha, calls>>

\* repo.rs:164-174: push HEAD to refs/heads/main, then mod.rs:57
GitPush ==
    /\ pc = "git_push"
    /\ \E r \in GitOutcomes :
         LET ev == Event("push", "refs/heads/main", gitdir.head, r) IN
         IF r = "ok"
         THEN /\ remote' = [remote EXCEPT !.main = gitdir.head]
              /\ log' = log \o <<ev, Return("initialize_git_and_push", "Ok")>>
              /\ pc' = "setup_repository_branches"
              /\ UNCHANGED result
         ELSE UNCHANGED remote /\ FailInitializeAndPush(ev)
    /\ UNCHANGED <<inputs, organization, ordered_map, gitdir, repo_url, main_sha, calls>>

----------------------------------------------------------------------------
(* setup_repository_branches, repo.rs:394-415, and create_develop_branch,   *)
(* repo.rs:288-392                                                          *)

\* a mutant of ReturnCreateDevelopBranch: an Err is passed on with ? and ends the run
PropagateCreateDevelopBranch(events, res) ==
    /\ log' = log \o events
                  \o <<Return("create_develop_branch", res),
                       Return("setup_repository_branches", res)>>
    /\ pc' = IF res = "Err" THEN "Aborted" ELSE "setup_return"

\* create_develop_branch returned; setup_repository_branches logs the outcome
\* and returns Ok(()) whatever it was (repo.rs:405-414)
ReturnCreateDevelopBranch(events, res) ==
    /\ log' = log \o events
                  \o <<Return("create_develop_branch", res),
                       Return("setup_repository_branches", "Ok")>>
    /\ pc' = "setup_return"

\* a mutant of SetupRepositoryBranches: main is read without the wait
SetupRepositoryBranchesNoWait ==
    /\ pc = "setup_repository_branches"
    /\ IF create_develop_branch
       THEN /\ pc' = "read_main_ref"
            /\ UNCHANGED log
       ELSE /\ log' = Append(log, Return("setup_repository_branches", "Ok"))
            /\ pc' = "setup_return"
    /\ UNCHANGED <<inputs, organization, ordered_map, gitdir, remote, result, repo_url, main_sha, calls>>

\* repo.rs:399-411: the wait and the call are taken only when create_develop is set
SetupRepositoryBranches ==
    /\ pc = "setup_repository_branches"
    /\ IF create_develop_branch
       THEN /\ log' = Append(log, Sleep(SetupDelaySecs))
            /\ pc' = "read_main_ref"
       ELSE /\ log' = Append(log, Return("setup_repository_branches", "Ok"))
            /\ pc' = "setup_return"
    /\ UNCHANGED <<inputs, organization, ordered_map, gitdir, remote, result, repo_url, main_sha, calls>>

\* a mutant of main_ref_result: a 2xx answer without object.sha is accepted
main_ref_result_lenient(r) == IF Is2xx(r) THEN "Ok" ELSE "Err"

\* what the read of main makes of the call (repo.rs:293-344)
main_ref_result(r) == IF r = "ok" THEN "Ok" ELSE "Err"

\* GET /repos/{org}/{repo}/git/refs/heads/main (repo.rs:292-346)
ReadMainRef ==
    /\ pc = "read_main_ref"
    /\ \E r \in ParsedResponses(remote.main # NoRef) :
         LET ev == Sent(ApiRequest("get_ref", "main", IF r = "ok" THEN remote.main ELSE "", r)) IN
         IF main_ref_result(r) = "Ok"
         THEN /\ main_sha' = (IF r = "ok" THEN remote.main ELSE "")
              /\ log' = log \o ev
              /\ pc' = "check_develop_ref"
         ELSE /\ ReturnCreateDevelopBranch(ev, "Err")
              /\ UNCHANGED main_sha
    /\ UNCHANGED <<inputs, organization, ordered_map, gitdir, remote, result, repo_url, calls>>

\* a mutant of develop_exists: any answer of the platform counts as "exists"
develop_exists_if_answered(r) == r # "transport"

\* a mutant of develop_exists: the existence check is ignored
develop_exists_never(r) == FALSE

\* repo.rs:358-363: only an answer with a success status counts as "exists"
develop_exists(r) == r = "ok"

\* a mutant of CheckDevelopRef: develop is created without the existence check
CheckDevelopRefSkipped ==
    /\ pc = "check_develop_ref"
    /\ pc' = "create_develop_ref"
    /\ UNCHANGED <<inputs, organization, ordered_map, gitdir, remote, log, result, repo_url, main_sha, calls>>

\* GET /repos/{org}/{repo}/git/refs/heads/develop (repo.rs:348-363); the body
\* is never read
CheckDevelopRef ==
    /\ pc = "check_develop_ref"
    /\ \E r \in {"transport", "error_status"}
                  \cup (IF remote.develop # NoRef THEN {"ok"} ELSE {}) :
         LET ev == <<ApiRequest("get_ref", "develop", "", r)>> IN
         IF develop_exists(r)
         THEN ReturnCreateDevelopBranch(ev, "Ok")
         ELSE /\ log' = log \o ev
              /\ pc' = "create_develop_ref"
    /\ UNCHANGED <<inputs, organization, ordered_map, gitdir, remote, result, repo_url, main_sha, calls>>

\* what the create request makes of the call (repo.rs:371-391)
create_ref_result(r) == IF r = "ok" THEN "Ok" ELSE "Err"

\* POST /repos/{org}/{repo}/git/refs (repo.rs:365-391); the platform refuses a
\* reference that exists and a sha it does not hold
CreateDevelopRef ==
    /\ pc = "create_develop_ref"
    /\ \E r \in Failures
                  \cup (IF remote.develop = NoRef /\ main_sha = remote.main
                        THEN {"ok"} ELSE {}) :
         LET ev == <<ApiRequest("create_ref", "refs/heads/develop", main_sha, r)>> IN
         /\ remote' = IF r = "ok" THEN [remote EXCEPT !.develop = main_sha] ELSE remote
         /\ ReturnCreateDevelopBranch(ev, create_ref_result(r))
    /\ UNCHANGED <<inputs, organization, ordered_map, gitdir, result, repo_url, main_sha, calls>>

\* mod.rs:61-67: Ok and Err of setup_repository_branches both go on
AfterSetupBranches ==
    /\ pc = "setup_return"
    /\ pc' = "check_workflows"
    /\ UNCHANGED <<inputs, organization, ordered_map, gitdir, remote, log, result, repo_url, main_sha, calls>>

\* another client of the platform creates develop from main: the case the
\* existence check of repo.rs:348-363 is there for
RemoteDevelopCreated ==
    /\ pc \in {"setup_repository_branches", "read_main_ref", "check_develop_ref"}
    /\ remote.main # NoRef
    /\ remote.develop = NoRef
    /\ remote' = [remote EXCEPT !.develop = remote.main]
    /\ UNCHANGED <<inputs, organization, ordered_map, gitdir, pc, log, result, repo_url, main_sha, calls>>

----------------------------------------------------------------------------
(* trigger_deployments, repo.rs:239-286, and trigger_workflow_dispatch,     *)
(* repo.rs:177-237                                                          *)

\* mod.rs:85: the run ends with Ok(())
Finish ==
    /\ pc' = "Done"
    /\ result' = "Ok"

\* mod.rs:69-83: deployments are triggered only when both workflow files exist
CheckWorkflows ==
    /\ pc = "check_workflows"
    /\ IF workflows_exist
       THEN pc' = "trigger_deployments" /\ UNCHANGED result
       ELSE Finish
    /\ UNCHANGED <<inputs, organization, ordered_map, gitdir, remote, log, repo_url, main_sha, calls>>

\* repo.rs:243-256: the opt-out; mod.rs:79-85 then ends the run
CheckNoDeploy ==
    /\ pc = "trigger_deployments"
    /\ IF no_deploy # <<>> /\ is_disabled(no_deploy[1])
       THEN /\ log' = Append(log, Return("trigger_deployments", "Ok"))
            /\ Finish
       ELSE /\ pc' = "wait_indexing"
            /\ UNCHANGED <<log, result>>
    /\ UNCHANGED <<inputs, organization, ordered_map, gitdir, remote, repo_url, main_sha, calls>>

\* repo.rs:260-261
WaitIndexing ==
    /\ pc = "wait_indexing"
    /\ log' = Append(log, Sleep(IndexingDelaySecs))
    /\ pc' = "dispatch_dev"
    /\ UNCHANGED <<inputs, organization, ordered_map, gitdir, remote, result, repo_url, main_sha, calls>>

\* POST .../actions/workflows/{workflow_file}/dispatches with {"ref": branch}
\* (repo.rs:177-237); the platform accepts it only for a branch it holds
trigger_workflow_dispatch(workflow_file, branch, r) ==
    Sent(ApiRequest("dispatch", workflow_file, branch, r))
      \o <<Return("trigger_workflow_dispatch", IF r = "ok" THEN "Ok" ELSE "Err")>>

\* a mutant of DevDispatch: the dev workflow is dispatched against main
DevDispatchOnMain(r) == trigger_workflow_dispatch("deploy-dev.yml", "main", r)

\* repo.rs:264-266
DevDispatch(r) == trigger_workflow_dispatch("deploy-dev.yml", "develop", r)

\* repo.rs:276-278
ProdDispatch(r) == trigger_workflow_dispatch("deploy-prod.yml", "main", r)

\* a mutant of DispatchDev: a failed dev dispatch is tried once more
DispatchDevRetrying ==
    /\ pc = "dispatch_dev"
    /\ \E r \in PlainResponses(remote.develop # NoRef) :
         /\ log' = log \o DevDispatch(r)
         /\ pc' = IF r # "ok" /\ \A i \in DOMAIN log : log[i].op # "dispatch"
                  THEN "dispatch_dev" ELSE "wait_rate_limit"
    /\ UNCHANGED <<inputs, organization, ordered_map, gitdir, remote, result, repo_url, main_sha, calls>>

\* a mutant of DispatchDev: a failed dev dispatch is passed on with ? and ends
\* trigger_deployments
DispatchDevPropagates ==
    /\ pc = "dispatch_dev"
    /\ \E r \in PlainResponses(remote.develop # NoRef) :
         IF r = "ok"
         THEN /\ log' = log \o DevDispatch(r)
              /\ pc' = "wait_rate_limit"
         ELSE /\ log' = log \o DevDispatch(r) \o <<Return("trigger_deployments", "Err")>>
              /\ pc' = "Done"
    /\ UNCHANGED <<inputs, organization, ordered_map, gitdir, remote, result, repo_url, main_sha, calls>>

\* repo.rs:263-270: Ok and Err both go on
DispatchDev ==
    /\ pc = "dispatch_dev"
    /\ \E r \in PlainResponses(remote.develop # NoRef) :
         log' = log \o DevDispatch(r)
    /\ pc' = "wait_rate_limit"
    /\ UNCHANGED <<inputs, organization, ordered_map, gitdir, remote, result, repo_url, main_sha, calls>>

\* repo.rs:272-273
WaitRateLimit ==
    /\ pc = "wait_rate_limit"
    /\ log' = Append(log, Sleep(RateLimitDelaySecs))
    /\ pc' = "dispatch_prod"
    /\ UNCHANGED <<inputs, organization, ordered_map, gitdir, remote, result, repo_url, main_sha, calls>>

\* repo.rs:275-286, then mod.rs:79-85
DispatchProd ==
    /\ pc = "dispatch_prod"
    /\ \E r \in PlainResponses(remote.main # NoRef) :
         log' = log \o ProdDispatch(r) \o <<Return("trigger_deployments", "Ok")>>
    /\ Finish
    /\ UNCHANGED <<inputs, organization, ordered_map, gitdir, remote, repo_url, main_sha, calls>>

----------------------------------------------------------------------------
(* One provisioning run: create_github_repository_with_code, mod.rs:19-86 *)

GitDirs ==
    {NoGitDir} \cup
    { [present |-> TRUE, commits |-> n, staged |-> TRUE, head |-> "sha_old", origin |-> "old_url"] :
        n \in 1..MaxOldCommits }

Init ==
    /\ token \in Tokens
    /\ github_tag \in Topics
    /\ create_develop_branch \in BOOLEAN
    /\ files \in SUBSET {DevWorkflow, ProdWorkflow}
    /\ no_deploy \in {<<>>} \cup { <<v>> : v \in NoDeployValues }
    /\ gitdir \in GitDirs
    /\ remote \in {NoRemote, [NoRemote EXCEPT !.exists = TRUE]}
    /\ pc = "create_repository"
    /\ log = <<>>
    /\ result = "pending"
    /\ repo_url = ""
    /\ main_sha = ""
    /\ calls = 1
    /\ REPO_URL = RepoUrl
    /\ organization = NotExtracted
    /\ NoOrderedMapCall

Next ==
    \/ CreateRepository
    \/ SetTopic
    \/ GitRemoveDir
    \/ GitInit
    \/ GitAddAll
    \/ GitCommit
    \/ GitRemoteAdd
    \/ GitPush
    \/ SetupRepositoryBranches
    \/ ReadMainRef
    \/ CheckDevelopRef
    \/ CreateDevelopRef
    \/ AfterSetupBranches
    \/ RemoteDevelopCreated
    \/ CheckWorkflows
    \/ CheckNoDeploy
    \/ WaitIndexing
    \/ DispatchDev
    \/ WaitRateLimit
    \/ DispatchProd

Spec == Init /\ [][Next]_vars

\* the run is never suspended for ever: every await completes
FairSpec == Spec /\ WF_vars(Next)

----------------------------------------------------------------------------
(* A caller of the public setup_repository_branches (repo.rs:394-398) that  *)
(* calls it again, on the same repository, once it has returned             *)

InitSetup ==
    /\ token \in Tokens
    /\ github_tag = <<>>
    /\ create_develop_branch \in BOOLEAN
    /\ files = {}
    /\ no_deploy = <<>>
    /\ gitdir = NoGitDir
    /\ remote \in [exists : {TRUE}, main : Shas \cup {NoRef}, develop : Shas \cup {NoRef}]
    /\ pc = "setup_repository_branches"
    /\ log = <<>>
    /\ result = "pending"
    /\ repo_url = "html_url"
    /\ main_sha = ""
    /\ calls = 1
    /\ REPO_URL = RepoUrl
    /\ organization = NotExtracted
    /\ NoOrderedMapCall

SetupAgain ==
    /\ pc = "setup_return"
    /\ calls < MaxSetupCalls
    /\ calls' = calls + 1
    /\ pc' = "setup_repository_branches"
    /\ UNCHANGED <<inputs, organization, ordered_map, gitdir, remote, log, result, repo_url, main_sha>>

NextSetup ==
    \/ SetupRepositoryBranches
    \/ ReadMainRef
    \/ CheckDevelopRef
    \/ CreateDevelopRef
    \/ SetupAgain

SpecSetup == InitSetup /\ [][NextSetup]_vars

----------------------------------------------------------------------------
(* Identity resolution on any base URL: extract_organization_from_repo_url  *)
(* (mod.rs:6-17) and the org_name of create_repository (repo.rs:27-30, 61)  *)

InitUrl ==
    /\ token = "ghp_token"
    /\ github_tag = <<>>
    /\ create_develop_branch = FALSE
    /\ files = {}
    /\ no_deploy = <<>>
    /\ gitdir = NoGitDir
    /\ remote = NoRemote
    /\ pc = "create_repository"
    /\ log = <<>>
    /\ result = "pending"
    /\ repo_url = ""
    /\ main_sha = ""
    /\ calls = 1
    /\ REPO_URL \in Urls
    /\ organization = NotExtracted
    /\ NoOrderedMapCall

\* a call of extract_organization_from_repo_url (mod.rs:6-17)
ExtractOrganization ==
    /\ organization = NotExtracted
    /\ organization' = extract_organization_from_repo_url(REPO_URL)
    /\ UNCHANGED <<inputs, ordered_map, gitdir, remote, pc, log, result, repo_url, main_sha, calls>>

NextUrl ==
    \/ ExtractOrganization
    \/ CreateRepository

SpecUrl == InitUrl /\ [][NextUrl]_vars

----------------------------------------------------------------------------
(* A caller of create_ordered_map on any template and replacements *)

InitMap ==
    /\ token = "ghp_token"
    /\ github_tag = <<>>
    /\ create_develop_branch = FALSE
    /\ files = {}
    /\ no_deploy = <<>>
    /\ gitdir = NoGitDir
    /\ remote = NoRemote
    /\ pc = "Done"
    /\ log = <<>>
    /\ result = "pending"
    /\ repo_url = ""
    /\ main_sha = ""
    /\ calls = 1
    /\ REPO_URL = RepoUrl
    /\ organization = NotExtracted
    /\ template_json \in Templates
    /\ replacements \in UNION { [1..n -> Replacements] : n \in 0..MaxReplacements }
    /\ variables \in [VariableNames -> {<<>>} \cup { <<v>> : v \in VariableValues }]
    /\ ordered_map = NotCreated

\* a call of create_ordered_map (functions.rs:26-95)
CreateOrderedMap ==
    /\ ordered_map = NotCreated
    /\ ordered_map' = [status |-> "created",
                       value |-> create_ordered_map(template_json, replacements)]
    /\ UNCHANGED <<inputs, organization, gitdir, remote, pc, log, result, repo_url,
                   main_sha, calls>>

NextMap == CreateOrderedMap

SpecMap == InitMap /\ [][NextMap]_vars

----------------------------------------------------------------------------
(* Reading the history *)

Events(op) == {i \in DOMAIN log : log[i].op = op}

Requests(op, target) == {i \in Events(op) : log[i].target = target}

Returned(fn, res) == \E i \in Requests("return", fn) : log[i].res = res

GitSteps == {"git_remove_dir", "git_init", "git_add", "git_commit", "git_remote_add", "push"}

\* create_repository failed before or at the create request: the request
\* failed, or it was not sent and the call returned Err
CreateRepositoryFailed ==
    \/ \E i \in Events("create_repository") : log[i].res # "ok"
    \/ Events("create_repository") = {} /\ Returned("create_repository", "Err")

CreateRepositorySucceeded == \E i \in Events("create_repository") : log[i].res = "ok"

InitializeAndPushFailed == \E i \in DOMAIN log : log[i].op \in GitSteps /\ log[i].res = "fail"

PushSucceeded == \E i \in Events("push") : log[i].res = "ok"

----------------------------------------------------------------------------
(* Claims *)

\* C1: when CreateRepository fails (transport error, non-success status, a
\* response without html_url), the run has ended with a fatal error and no
\* topic request, push, branch read, branch create or dispatch was issued.
C1_CreateFailureAborts ==
    CreateRepositoryFailed =>
        /\ pc = "Aborted"
        /\ result = "Err"
        /\ \A i \in DOMAIN log :
             log[i].op \notin {"set_topic", "push", "get_ref", "create_ref", "dispatch"}

C1_Witness ==
    /\ pc = "Aborted"
    /\ \E i \in Events("create_repository") : log[i].res = "error_status"

\* C2: when a step of InitializeAndPush fails, the run has ended with a fatal
\* error and no branch-setup wait, branch read, branch create or dispatch
\* follows.
C2_PushFailureAborts ==
    InitializeAndPushFailed =>
        /\ pc = "Aborted"
        /\ result = "Err"
        /\ \A i \in DOMAIN log :
             log[i].op \notin {"sleep", "get_ref", "create_ref", "dispatch"}

C2_Witness ==
    /\ pc = "Aborted"
    /\ \E i \in Events("git_commit") : log[i].res = "fail"

\* C3: whatever the outcome of the topic request, create_repository does not
\* return an error and the run goes on to InitializeAndPush.
C3_TopicBestEffort ==
    Events("set_topic") # {} =>
        /\ ~Returned("create_repository", "Err")
        /\ pc # "Aborted"

\* C4: once repository creation and push have succeeded, no outcome of the
\* branch reads, the branch create or the dispatches makes the run fail: it
\* is never aborted and it ends with Ok.
C4_AdvisoryFailuresKeepOk ==
    (CreateRepositorySucceeded /\ PushSucceeded) =>
        /\ pc # "Aborted"
        /\ result # "Err"
        /\ (pc = "Done" => result = "Ok")

C4_Witness ==
    /\ pc = "Done"
    /\ result = "Ok"
    /\ \E i \in Requests("get_ref", "develop") : log[i].res = "transport"
    /\ \E i \in Events("create_ref") : log[i].res = "error_status"
    /\ \E i \in Requests("dispatch", "deploy-dev.yml") : log[i].res = "error_unreadable"
    /\ \E i \in Requests("dispatch", "deploy-prod.yml") : log[i].res = "transport"

\* C5: once repository creation and push succeeded the terminal state is
\* Done, and Aborted is reached only if repository creation or push failed.
C5_AbortedOnlyOnFatalStep ==
    /\ (CreateRepositorySucceeded /\ PushSucceeded) => pc # "Aborted"
    /\ pc = "Aborted" => (CreateRepositoryFailed \/ InitializeAndPushFailed)

\* the repository had develop before the first call and no call created it
HadDevelop ==
    /\ remote.develop # NoRef
    /\ \A i \in Events("create_ref") : log[i].res # "ok"

\* the read of develop that call k made failed (transport error or error status)
DevelopReadFailedBefore(i) ==
    \E j \in Requests("get_ref", "develop") :
        /\ j < i
        /\ log[j].call = log[i].call
        /\ log[j].res # "ok"

\* the order of the positions of one run
Rank(p) ==
    CASE p = "create_repository" -> 0
      [] p = "set_topic" -> 1
      [] p = "initialize_git_and_push" -> 2
      [] p = "git_init" -> 3
      [] p = "git_add" -> 4
      [] p = "git_commit" -> 5
      [] p = "git_remote_add" -> 6
      [] p = "git_push" -> 7
      [] p = "setup_repository_branches" -> 8
      [] p = "read_main_ref" -> 9
      [] p = "check_develop_ref" -> 10
      [] p = "create_develop_ref" -> 11
      [] p = "setup_return" -> 12
      [] p = "check_workflows" -> 13
      [] p = "trigger_deployments" -> 14
      [] p = "wait_indexing" -> 15
      [] p = "dispatch_dev" -> 16
      [] p = "wait_rate_limit" -> 17
      [] p = "dispatch_prod" -> 18
      [] OTHER -> 19

\* C5, the parts that hold: under FairSpec every run reaches Done or Aborted,
\* and no step of a run goes back to an earlier position.
C5_Terminates == <>(pc \in {"Done", "Aborted"})

C5_NoBackwardTransition == [][Rank(pc') >= Rank(pc)]_vars

\* C6 as stated: against a repository that already has develop, two calls of
\* the branch-setup step never issue a second create-reference request and
\* both report success.
C6_NoSecondCreate ==
    HadDevelop =>
        /\ Cardinality(Events("create_ref")) < 2
        /\ \A i \in Requests("return", "setup_repository_branches") : log[i].res = "Ok"

\* C6, amended: against a repository that already has develop, a call of the
\* branch-setup step issues a create-reference request only when its own read
\* of develop failed, never when that read returned a success status, and
\* every call reports success.
C6_NoCreateAfterSuccessfulRead ==
    HadDevelop =>
        /\ \A i \in Events("create_ref") : DevelopReadFailedBefore(i)
        /\ \A j \in Requests("get_ref", "develop") :
             log[j].res = "ok" =>
                 \A i \in Events("create_ref") : log[i].call # log[j].call
        /\ \A i \in Requests("return", "setup_repository_branches") : log[i].res = "Ok"

C6_Witness ==
    /\ HadDevelop
    /\ calls = 2
    /\ pc = "setup_return"
    /\ Cardinality({j \in Requests("get_ref", "develop") : log[j].res = "ok"}) = 2
    /\ Cardinality({i \in Requests("return", "setup_repository_branches") : log[i].res = "Ok"}) = 2
    /\ Events("create_ref") = {}

\* C7 as stated: whenever develop already exists on the remote,
\* create_develop_branch returns success and POST git/refs is not contacted.
C7_ExistingDevelopNeverCreated ==
    HadDevelop =>
        /\ Events("create_ref") = {}
        /\ ~Returned("create_develop_branch", "Err")

\* C7, amended: create_develop_branch reads develop before any create
\* request; whenever that read returns a success status the call returns
\* success at once and POST git/refs is not contacted in that call.
C7_SuccessfulReadSkipsCreate ==
    /\ \A i \in Events("create_ref") :
         \E j \in Requests("get_ref", "develop") : j < i /\ log[j].call = log[i].call
    /\ \A j \in Requests("get_ref", "develop") :
         log[j].res = "ok" =>
             /\ j + 1 \in DOMAIN log
             /\ log[j + 1].op = "return"
             /\ log[j + 1].target = "create_develop_branch"
             /\ log[j + 1].res = "Ok"
             /\ \A i \in Events("create_ref") : log[i].call # log[j].call

C7_Witness ==
    /\ HadDevelop
    /\ \E j \in Requests("get_ref", "develop") : log[j].res = "ok"
    /\ Returned("create_develop_branch", "Ok")
    /\ Events("create_ref") = {}

\* two characters that are the same letter in either case
SameLetter(a, b) ==
    \/ a = b
    \/ \E i \in DOMAIN UpperAlphabet : {a, b} = {UpperAlphabet[i], LowerAlphabet[i]}

EqualsIgnoreCase(v, w) ==
    /\ Len(v) = Len(w)
    /\ \A i \in DOMAIN v : SameLetter(v[i], w[i])

OptOutWords == { <<"t","r","u","e">>, <<"1">>, <<"y","e","s">>, <<"o","n">> }

\* no_deploy is set to a value that case-insensitively equals an opt-out word
OptedOut ==
    /\ no_deploy # <<>>
    /\ \E w \in OptOutWords : EqualsIgnoreCase(no_deploy[1], w)

BothWorkflows == {DevWorkflow, ProdWorkflow} \subseteq files

\* what the run did after setup_repository_branches returned
AfterSetup ==
    IF Requests("return", "setup_repository_branches") = {} THEN <<>>
    ELSE LET i == CHOOSE k \in Requests("return", "setup_repository_branches") : TRUE
         IN SubSeq(log, i + 1, Len(log))

IsDeployStep(e) == e.op \in {"sleep", "dispatch"}

\* the waits and dispatches of the deployment stage, in order
DeploySteps == SelectSeq(AfterSetup, IsDeployStep)

Dispatched(workflow_file) == Requests("dispatch", workflow_file) # {}

\* C8: with no_deploy set to an opt-out word in any case, no dispatch request
\* is issued and no deployment wait is taken; with any other value, or unset,
\* a run that has both workflow files dispatches both workflows.
C8_OptOutSkipsDispatch ==
    /\ OptedOut => (Events("dispatch") = {} /\ DeploySteps = <<>>)
    /\ (~OptedOut /\ BothWorkflows /\ pc = "Done") =>
           (Dispatched("deploy-dev.yml") /\ Dispatched("deploy-prod.yml"))

C8_Witness ==
    /\ no_deploy = << <<"Y","e","S">> >>
    /\ BothWorkflows
    /\ pc = "Done"
    /\ Returned("trigger_deployments", "Ok")

\* C9: a dispatch request is issued only when both workflow files exist; with
\* one or none of them no dispatch is issued and a run whose push succeeded
\* still ends in success.
C9_DispatchNeedsBothWorkflows ==
    /\ Events("dispatch") # {} => BothWorkflows
    /\ (~BothWorkflows /\ PushSucceeded) =>
           /\ DeploySteps = <<>>
           /\ pc # "Aborted"
           /\ (pc = "Done" => result = "Ok")

C9_Witness ==
    /\ Cardinality(files) = 1
    /\ pc = "Done"
    /\ result = "Ok"

Shape(e) == <<e.op, e.target, e.ref, e.secs>>

ExpectedDeploySteps ==
    << <<"sleep", "", "", IndexingDelaySecs>>,
       <<"dispatch", "deploy-dev.yml", "develop", 0>>,
       <<"sleep", "", "", RateLimitDelaySecs>>,
       <<"dispatch", "deploy-prod.yml", "main", 0>> >>

\* C10: the deployment stage is, in this order, the wait for indexing, the
\* dispatch of deploy-dev.yml against develop, a shorter wait, the dispatch of
\* deploy-prod.yml against main; an eligible run that is done has taken all
\* four steps.
C10_DeployOrder ==
    /\ RateLimitDelaySecs < IndexingDelaySecs
    /\ Len(DeploySteps) <= Len(ExpectedDeploySteps)
    /\ \A i \in DOMAIN DeploySteps : Shape(DeploySteps[i]) = ExpectedDeploySteps[i]
    /\ (pc = "Done" /\ BothWorkflows /\ ~OptedOut) =>
           Len(DeploySteps) = Len(ExpectedDeploySteps)

C10_Witness ==
    /\ pc = "Done"
    /\ Len(DeploySteps) = 4
    /\ Dispatched("deploy-dev.yml")
    /\ Dispatched("deploy-prod.yml")

\* C11: the prod dispatch is attempted whether the dev dispatch succeeded or
\* failed, no prod dispatch is attempted without the dev one, and no outcome
\* of either dispatch makes trigger_deployments return an error.
C11_DispatchesIndependent ==
    /\ \A i \in Requests("dispatch", "deploy-dev.yml") :
         \/ pc \in {"wait_rate_limit", "dispatch_prod"}
         \/ Dispatched("deploy-prod.yml")
    /\ Dispatched("deploy-prod.yml") => Dispatched("deploy-dev.yml")
    /\ ~Returned("trigger_deployments", "Err")
    /\ (pc = "Done" /\ Dispatched("deploy-dev.yml")) => Returned("trigger_deployments", "Ok")

C11_Witness ==
    /\ pc = "Done"
    /\ \E i \in Requests("dispatch", "deploy-dev.yml") : log[i].res = "error_status"
    /\ \E i \in Requests("dispatch", "deploy-prod.yml") : log[i].res = "ok"
    /\ Returned("trigger_deployments", "Ok")

\* the run of the end-to-end scenario: no topic, create_develop set, no
\* workflow file, the run is done and the platform accepted every call; the
\* existence check of develop is answered as the platform's state has it
AcceptingRun ==
    /\ pc = "Done"
    /\ github_tag = <<>>
    /\ create_develop_branch
    /\ files = {}
    /\ \A i \in DOMAIN log :
         \/ log[i].res \in {"ok", "Ok"}
         \/ log[i].op = "get_ref" /\ log[i].target = "develop" /\ log[i].res = "error_status"

\* C12 as stated: the accepting run issued exactly one create-repository
\* call, one push, one branch read, one branch create with main's sha and no
\* dispatch.
C12_OneBranchRead ==
    AcceptingRun =>
        /\ result = "Ok"
        /\ Cardinality(Events("create_repository")) = 1
        /\ Cardinality(Events("push")) = 1
        /\ Cardinality(Events("get_ref")) = 1
        /\ Cardinality(Events("create_ref")) = 1
        /\ \A i \in Events("create_ref") : log[i].ref = remote.main
        /\ Events("dispatch") = {}

\* C12, amended: the accepting run in which the existence check finds no
\* develop issued exactly one create-repository call, one push, two branch
\* reads (main, then develop), one branch create with main's sha and no
\* dispatch, and ended in success.
C12_EndToEndCounts ==
    (AcceptingRun /\ \A i \in Requests("get_ref", "develop") : log[i].res # "ok") =>
        /\ result = "Ok"
        /\ Cardinality(Events("create_repository")) = 1
        /\ Cardinality(Events("push")) = 1
        /\ Cardinality(Requests("get_ref", "main")) = 1
        /\ Cardinality(Requests("get_ref", "develop")) = 1
        /\ Cardinality(Events("get_ref")) = 2
        /\ \A i \in Requests("get_ref", "main") :
             \A j \in Requests("get_ref", "develop") : i < j
        /\ Cardinality(Events("create_ref")) = 1
        /\ \A i \in Events("create_ref") :
             /\ log[i].ref = remote.main
             /\ log[i].ref = remote.develop
             /\ \A j \in Events("push") : log[i].ref = log[j].ref
        /\ Events("dispatch") = {}

C12_Witness ==
    /\ AcceptingRun
    /\ \E i \in Requests("get_ref", "develop") : log[i].res = "error_status"
    /\ \E i \in Events("create_ref") : log[i].res = "ok"

\* the base URL has a segment that is not empty
HasNonEmptySegment(url) == \E i \in DOMAIN url : url[i] # "/"

\* the last segment of url that is not empty: the characters between two '/'
\* (or an end of url) that end at the last character that is not '/'
LastNonEmptySegment(url) ==
    LET e == CHOOSE i \in DOMAIN url :
                 url[i] # "/" /\ \A k \in DOMAIN url : k > i => url[k] = "/"
        b == CHOOSE j \in 1..e :
                 /\ \A k \in j..e : url[k] # "/"
                 /\ (j = 1 \/ url[j - 1] = "/")
    IN SubSeq(url, b, e)

\* C13: for every base URL with a non-empty segment, a trailing '/' included,
\* identity resolution returns the last non-empty segment, in
\* extract_organization_from_repo_url and in the organization of the
\* create-repository request.
C13_LastNonEmptySegment ==
    HasNonEmptySegment(REPO_URL) =>
        /\ organization # NotExtracted =>
               organization = [status |-> "Ok", value |-> LastNonEmptySegment(REPO_URL)]
        /\ \A i \in Events("create_repository") :
               log[i].org = LastNonEmptySegment(REPO_URL)

\* C14: identity resolution fails on the empty base URL, never returns an
\* empty organization, and no request is built with an empty organization.
C14_NoEmptyOrganization ==
    /\ (REPO_URL = <<>> /\ organization # NotExtracted) => organization.status = "Err"
    /\ organization.status = "Ok" => organization.value # <<>>
    /\ \A i \in Events("create_repository") : log[i].org # <<>>

\* the stage of the run an operation belongs to; sleeps and returns have none
StageOf(e) ==
    CASE e.op = "create_repository" -> 1
      [] e.op = "set_topic" -> 2
      [] e.op \in GitSteps -> 3
      [] e.op \in {"get_ref", "create_ref"} -> 4
      [] e.op = "dispatch" -> 5
      [] OTHER -> 0

Operations == {i \in DOMAIN log : StageOf(log[i]) > 0}

\* an operation of the given kind ended well before position i
DoneBefore(i, op, res) == \E j \in Events(op) : j < i /\ log[j].res = res

\* C15: the operations of a run are totally ordered by stage: the create
\* request, then the topic request, then the local steps and the push, then
\* the branch reads and create, then the dispatches; a later stage starts only
\* once the earlier one has completed, and every operation has its outcome
\* before the next one is issued.
C15_StagesInOrder ==
    /\ \A i, j \in Operations : i < j => StageOf(log[i]) <= StageOf(log[j])
    /\ \A i \in Operations :
         /\ StageOf(log[i]) > 1 => DoneBefore(i, "create_repository", "ok")
         /\ StageOf(log[i]) > 3 => DoneBefore(i, "push", "ok")
         /\ StageOf(log[i]) > 4 =>
                \E j \in Requests("return", "setup_repository_branches") : j < i
         /\ log[i].res \in Failures \cup {"ok", "bad_json", "no_field", "fail"}

C15_Witness ==
    /\ pc = "Done"
    /\ Events("set_topic") # {}
    /\ Events("create_ref") # {}
    /\ Dispatched("deploy-prod.yml")

\* C16: with create_develop = false no wait is taken before branch setup
\* returns and no branch read or create is issued; with create_develop = true
\* the read of main comes right after the completed wait of SetupDelaySecs.
C16_SetupOnlyWhenAsked ==
    /\ ~create_develop_branch =>
           /\ Events("get_ref") = {}
           /\ Events("create_ref") = {}
           /\ \A i \in Events("sleep") :
                  \E j \in Requests("return", "setup_repository_branches") : j < i
    /\ \A i \in Requests("get_ref", "main") :
           /\ create_develop_branch
           /\ i > 1
           /\ log[i - 1].op = "sleep"
           /\ log[i - 1].secs = SetupDelaySecs

C16_Witness ==
    /\ create_develop_branch
    /\ Requests("get_ref", "main") # {}
    /\ pc = "Done"

\* C17: a create-reference request follows, in the same call, a read of main
\* that succeeded and returned a commit hash, and sends that hash; after a
\* read of main that failed or lacked the hash no create request is issued in
\* that call.
C17_CreateUsesMainSha ==
    /\ \A i \in Events("create_ref") :
         \E j \in Requests("get_ref", "main") :
             /\ j < i
             /\ log[j].call = log[i].call
             /\ log[j].res = "ok"
             /\ log[j].ref \in Shas
             /\ log[i].ref = log[j].ref
    /\ \A j \in Requests("get_ref", "main") :
         log[j].res # "ok" =>
             \A i \in Events("create_ref") : log[i].call # log[j].call

C17_Witness ==
    /\ \E i \in Events("create_ref") : log[i].res = "ok" /\ log[i].ref = remote.develop
    /\ \E j \in Requests("get_ref", "main") : log[j].res = "no_field"

\* C18: in one run each of the create-repository request, the topic request,
\* the push, the read of main, the read of develop, the create-reference
\* request, the dev dispatch and the prod dispatch is issued at most once.
C18_NoRetry ==
    /\ Cardinality(Events("create_repository")) <= 1
    /\ Cardinality(Events("set_topic")) <= 1
    /\ Cardinality(Events("push")) <= 1
    /\ Cardinality(Requests("get_ref", "main")) <= 1
    /\ Cardinality(Requests("get_ref", "develop")) <= 1
    /\ Cardinality(Events("create_ref")) <= 1
    /\ Cardinality(Requests("dispatch", "deploy-dev.yml")) <= 1
    /\ Cardinality(Requests("dispatch", "deploy-prod.yml")) <= 1

C18_Witness ==
    /\ pc = "Done"
    /\ \E i \in Events("create_ref") : log[i].res = "transport"
    /\ \E i \in Requests("dispatch", "deploy-dev.yml") : log[i].res = "transport"
    /\ \E i \in Requests("dispatch", "deploy-prod.yml") : log[i].res = "error_status"

IsGitStep(e) == e.op \in GitSteps

\* the local steps of initialize_git_and_push taken so far, in order
GitLog == SelectSeq(log, IsGitStep)

StepsAfterRemove == <<"git_init", "git_add", "git_commit", "git_remote_add", "push">>

\* the steps in their fixed order, from the one the run started with
ExpectedGitSteps ==
    IF GitLog # <<>> /\ GitLog[1].op = "git_remove_dir"
    THEN <<"git_remove_dir">> \o StepsAfterRemove
    ELSE StepsAfterRemove

\* the metadata directory is removed exactly when it is present
RemovesOnlyIfPresent ==
    (pc = "initialize_git_and_push" /\ pc' # pc) =>
        IF gitdir.present
        THEN Len(log') > Len(log) /\ log'[Len(log) + 1].op = "git_remove_dir"
        ELSE log' = log

GitStepsInOrder ==
    /\ Len(GitLog) <= Len(ExpectedGitSteps)
    /\ \A i \in DOMAIN GitLog :
         /\ GitLog[i].op = ExpectedGitSteps[i]
         /\ i < Len(GitLog) => GitLog[i].res = "ok"
         /\ GitLog[i].res = "fail" =>
                (pc = "Aborted" /\ Returned("initialize_git_and_push", "Err"))
    /\ pc = "git_init" => ~gitdir.present
    /\ (pc = "git_push" \/ Events("push") # {}) =>
           /\ gitdir.commits = 1
           /\ gitdir.staged
           /\ gitdir.origin = repo_url
           /\ \A i \in Events("push") : log[i].ref = gitdir.head

\* C19: initialize_git_and_push takes its steps in the order remove (only if
\* the directory is present), init, stage, commit, add remote, push; a step
\* runs only after every earlier one succeeded, the first failure ends the
\* call with an error, and the push comes after exactly one commit on a
\* freshly initialized repository.
C19_GitStepsOrdered == []GitStepsInOrder /\ [][RemovesOnlyIfPresent]_vars

C19_Witness ==
    /\ Events("git_remove_dir") # {}
    /\ \E i \in Events("push") : log[i].res = "ok"
    /\ gitdir.commits = 1

\* C20 as stated: whenever the dev workflow is dispatched against develop, the
\* run has created develop or seen that it exists.
C20_DispatchNeedsDevelop ==
    Dispatched("deploy-dev.yml") =>
        \/ \E i \in Events("create_ref") : log[i].res = "ok"
        \/ \E i \in Requests("get_ref", "develop") : log[i].res = "ok"

\* what the code does instead: the dev workflow is dispatched against develop
\* once branch setup has returned, whatever branch setup did
DevDispatchIgnoresSetup ==
    /\ \A i \in Requests("dispatch", "deploy-dev.yml") :
         /\ log[i].ref = "develop"
         /\ \E j \in Requests("return", "setup_repository_branches") : j < i
    /\ (pc = "Done" /\ BothWorkflows /\ ~OptedOut) => Dispatched("deploy-dev.yml")

\* C21: in create_develop_branch a read of develop that ends in anything but
\* a success status (transport failure, 404 or another error status) is
\* followed by the create-reference request of the same call, sending the
\* hash read from main; the call never returns an error right after the read.
C21_FailedCheckMeansAbsent ==
    \A i \in Requests("get_ref", "develop") :
        /\ log[i].res # "ok" =>
               IF i = Len(log)
               THEN pc = "create_develop_ref"
               ELSE /\ log[i + 1].op = "create_ref"
                    /\ log[i + 1].call = log[i].call
                    /\ log[i + 1].ref = main_sha
        /\ i < Len(log) => ~(log[i + 1].op = "return" /\ log[i + 1].res = "Err")

C21_Witness ==
    /\ remote.develop # NoRef
    /\ \E i, j \in Requests("get_ref", "develop") :
         /\ i < Len(log) /\ j < Len(log)
         /\ log[i].res = "transport"
         /\ log[j].res = "error_status"
         /\ log[i + 1].op = "create_ref"
         /\ log[j + 1].op = "create_ref"

\* the keys of a map
KeysOf(map) == {map[i].key : i \in DOMAIN map}

IsTemplateEntry(e) == e.key \in KeysOf(template_json)

\* the replacement keys absent from the template whose variable is defined
NewKeys ==
    {get_json_key(replacements[i]) : i \in
        {j \in DOMAIN replacements :
            /\ get_json_key(replacements[j]) \notin KeysOf(template_json)
            /\ get_variable(replacements[j].name) # <<>>}}

\* where the returned map holds keys that are not the template's
NewPositions ==
    {i \in DOMAIN ordered_map.value : ordered_map.value[i].key \notin KeysOf(template_json)}

\* the template's entries are kept, in their order and with their values
TemplateKept == SelectSeq(ordered_map.value, IsTemplateEntry) = template_json

\* C22 as stated: the returned map keeps the template's entries in order and
\* with their values, holds every new key, and has the new keys directly
\* after "name" when the template has that key, at the end otherwise.
C22_NewKeysFollowName ==
    ordered_map.status = "created" =>
        /\ TemplateKept
        /\ {ordered_map.value[i].key : i \in NewPositions} = NewKeys
        /\ Cardinality(NewPositions) = Cardinality(NewKeys)
        /\ LET name_pos == get_index_of(template_json, "name") IN
           IF name_pos # <<>>
           THEN NewPositions = (name_pos[1] + 1)..(name_pos[1] + Cardinality(NewKeys))
           ELSE NewPositions = (Len(template_json) + 1)..Len(ordered_map.value)

\* what the code does instead: the new keys are at the end of the map whether
\* or not the template has "name"
NewKeysAtEnd ==
    ordered_map.status = "created" =>
        /\ TemplateKept
        /\ {ordered_map.value[i].key : i \in NewPositions} = NewKeys
        /\ NewPositions = (Len(template_json) + 1)..Len(ordered_map.value)
        /\ Len(ordered_map.value) = Len(template_json) + Cardinality(NewKeys)

====
